---- MODULE Spec2Model ----
(***************************************************************************)
(* Crypto Prediction Tournaments API (main.py): the six HTTP handlers over *)
(* the two collections "tournament" and "prediction" of the document store. *)
(* Text that is taken apart by the code (identifier text) is a sequence of  *)
(* one-character strings; other text is a string.  A JSON / BSON value that *)
(* may be a number, a timestamp, text or null is a tagged record; a field   *)
(* that is absent is absent from the record's DOMAIN.                        *)
(***************************************************************************)
EXTENDS Integers, Sequences, FiniteSets, TLC

VARIABLES
    db,          \* the module-level store handle: "unset" (None), "up", "down"
    store,       \* the two collections, each a sequence of documents
    nextId,      \* ordinal of the next identifier the store assigns
    pc,          \* per worker: position inside create_prediction
    req,         \* per worker: the Prediction payload and parsed id in hand
    resp,        \* the response sent last
    createdT,    \* history: {id, p} of every successful create_tournament
    createdP     \* history: {id, p} of every successful create_prediction

vars == <<db, store, nextId, pc, req, resp, createdT, createdP>>

\* ---------------------------------------------------------------- bounds
IdLen == 2
MaxDocs == 2
ExtraCollections == 9
ErrLen == 82
Workers == {1, 2}

\* ---------------------------------------------------------------- values
None == [t |-> "none"]
Num(n) == [t |-> "num", n |-> n]
Str(s) == [t |-> "str", s |-> s]
Time(k) == [t |-> "time", k |-> k]

\* Python truthiness of an optional text value (None and "" are falsy)
Truthy(v) == v.t = "str" /\ Len(v.s) > 0

\* dict.get(key, default)
Get(d, k, default) == IF k \in DOMAIN d THEN d[k] ELSE default

\* float(x) is defined on numbers only; float(None) raises TypeError
FloatOk(v) == v.t = "num"
Float(v) == v.n

\* a stored timestamp is truthy; null is falsy
TruthyTime(v) == v.t = "time"

\* datetime.isoformat() of a stored timestamp
IsoFormat(v) ==
    IF v.k = 1 THEN "2025-01-01T00:00:00" ELSE "2025-01-08T00:00:00"

\* ---------------------------------------------------------------- identifiers
\* characters of an identifier text: "1" a hex digit, "a"/"A" the two
\* spellings of one hex digit, "g" not a hex digit
IsHex(c) == c \in {"1", "a", "A"}
HexVal(c) == IF c = "1" THEN 1 ELSE 10

InvalidId == <<>>

\* bson ObjectId(text): IdLen hex characters, either case; else InvalidId
ObjectId(text) ==
    IF Len(text) = IdLen /\ \A i \in 1..Len(text) : IsHex(text[i])
    THEN [i \in 1..IdLen |-> HexVal(text[i])]
    ELSE InvalidId

\* str(ObjectId): lower-case hex
StrOid(oid) == [i \in 1..Len(oid) |-> IF oid[i] = 10 THEN "a" ELSE "1"]

RECURSIVE Pow2(_)
Pow2(n) == IF n = 0 THEN 1 ELSE 2 * Pow2(n - 1)

NumOids == Pow2(IdLen)

\* the k-th identifier the store assigns (fresh, never reused)
OidOf(k) ==
    [i \in 1..IdLen |-> IF (k \div Pow2(IdLen - i)) % 2 = 1 THEN 10 ELSE 1]

\* every text spelling the parser maps to oid
Spellings(oid) ==
    {s \in [1..IdLen -> {"1", "a", "A"}] : ObjectId(s) = oid}

\* ---------------------------------------------------------------- store
\* insert_one: the document gets a fresh _id and goes to the end
InsertOne(coll, doc, oid) ==
    Append(coll, [k \in DOMAIN doc \cup {"_id"} |->
                     IF k = "_id" THEN oid ELSE doc[k]])

\* find(filter): the documents whose fields equal the filter's, in store order
Matches(d, filter) ==
    \A k \in DOMAIN filter : k \in DOMAIN d /\ d[k] = filter[k]

Find(coll, filter) == SelectSeq(coll, LAMBDA d : Matches(d, filter))

\* create_document(collection_name, model): the validated model's fields,
\* field for field, as one new document of the named collection
create_document(collection_name, model) ==
    [store EXCEPT ![collection_name] =
        InsertOne(store[collection_name], model, OidOf(nextId))]

\* get_documents(collection_name, filter): every match, no sort, no limit
get_documents(collection_name, filter) == Find(store[collection_name], filter)

\* the store can assign one more identifier
Room == nextId < NumOids /\ nextId <= MaxDocs

\* the text of the failure a store call raises
StoreError ==
    IF db = "unset" THEN "Database not available" ELSE "connection refused"

\* ---------------------------------------------------------------- payloads
TournamentBase ==
    [title |-> "BTC Weekly", asset |-> "BTC",
     start_time |-> Time(1), end_time |-> Time(2),
     entry_fee |-> Num(10), prize_pool |-> Num(1000)]

WithField(r, f, v) ==
    [k \in DOMAIN r \cup {f} |-> IF k = f THEN v ELSE r[k]]

\* request bodies of POST /api/tournaments: status omitted or given, and one
\* body whose entry_fee is no number
TournamentPayloads ==
    { TournamentBase,
      WithField(TournamentBase, "status", "active"),
      WithField(TournamentBase, "entry_fee", Str("abc")) }

\* Tournament (schemas.py): required fields present and of their type
ValidTournament(t) ==
    /\ {"title", "asset", "start_time", "end_time", "entry_fee", "prize_pool"}
          \subseteq DOMAIN t
    /\ t.start_time.t = "time" /\ t.end_time.t = "time"
    /\ t.entry_fee.t = "num" /\ t.entry_fee.n >= 0
    /\ t.prize_pool.t = "num" /\ t.prize_pool.n >= 0

\* identifier texts a client sends: every spelling of the first identifier
\* the store assigns, the identifier of the legacy document, and malformed
\* ones (a character that is no hex digit, one character short)
TidMalformed ==
    LET c == StrOid(OidOf(1))
    IN  { [c EXCEPT ![1] = "g"], SubSeq(c, 1, IdLen - 1) }

TidInputs == Spellings(OidOf(1)) \cup {StrOid(OidOf(0))} \cup TidMalformed

PredictionBase(tid) ==
    [tournament_id |-> tid, user |-> "alice", direction |-> "up",
     amount |-> Num(5)]

\* request bodies of POST /api/predictions: per identifier text a valid
\* body, and bodies whose amount is no number
PredictionPayloads ==
    {PredictionBase(tid) : tid \in TidInputs} \cup
    {WithField(PredictionBase(tid), "amount", Str("abc")) :
        tid \in {StrOid(OidOf(1))} \cup TidMalformed}

\* Prediction (schemas.py): required fields present and of their type
ValidPrediction(p) ==
    /\ {"tournament_id", "user", "direction", "amount"} \subseteq DOMAIN p
    /\ p.amount.t = "num" /\ p.amount.n >= 0

\* documents found in the collection when the process starts, written by
\* an earlier deployment: entry_fee absent, or entry_fee null
LegacyTournaments ==
    { [_id |-> OidOf(0), title |-> "Legacy", asset |-> "ETH",
       start_time |-> Time(1), end_time |-> Time(2),
       prize_pool |-> Num(0)],
      [_id |-> OidOf(0), title |-> "Legacy", asset |-> "ETH",
       start_time |-> Time(1), end_time |-> Time(2),
       entry_fee |-> None, prize_pool |-> Num(0), status |-> "completed"] }

\* ---------------------------------------------------------------- responses
NoResponse == [op |-> "none", status |-> 0]

\* HTTPException(status_code, detail)
HTTPException(op, status_code, detail, request) ==
    [op |-> op, status |-> status_code, detail |-> detail, request |-> request]

\* 422 of the framework's request validation, before the handler runs
Unprocessable(op, request) ==
    HTTPException(op, 422, "validation error", request)

Init ==
    /\ db \in {"unset", "up"}
    /\ \E legacy \in {<<>>} \cup {<<d>> : d \in LegacyTournaments} :
          store = [tournament |-> IF db = "up" THEN legacy ELSE <<>>,
                   prediction |-> <<>>]
    /\ nextId = 1
    /\ pc = [w \in Workers |-> "idle"]
    /\ req = [w \in Workers |-> None]
    /\ resp = NoResponse
    /\ createdT = {}
    /\ createdP = {}

\* ---------------------------------------------------------------- environment
\* the store becomes unreachable / reachable again; the handle stays set
StoreFails ==
    /\ db = "up"
    /\ db' = "down"
    /\ UNCHANGED <<store, nextId, pc, req, resp, createdT, createdP>>

StoreRecovers ==
    /\ db = "down"
    /\ db' = "up"
    /\ UNCHANGED <<store, nextId, pc, req, resp, createdT, createdP>>

\* ---------------------------------------------------------------- GET /
read_root ==
    /\ resp' = [op |-> "read_root", status |-> 200,
                message |-> "Crypto Prediction Backend Running"]
    /\ UNCHANGED <<db, store, nextId, pc, req, createdT, createdP>>

\* ---------------------------------------------------------------- GET /test
CollectionsCut == 10
ErrorCut == 80

\* db.list_collection_names(): the other collections of the database, then
\* each of the two collections that holds a document
list_collection_names ==
    [i \in 1..ExtraCollections |-> [name |-> "other", i |-> i]]
    \o (IF Len(store.tournament) > 0 THEN <<[name |-> "tournament"]>> ELSE <<>>)
    \o (IF Len(store.prediction) > 0 THEN <<[name |-> "prediction"]>> ELSE <<>>)

\* str(e) of the failure list_collection_names raises
ErrorText == [i \in 1..ErrLen |-> "e"]

\* collections[:10]
SliceAll(s) == s
Slice10(s) == SubSeq(s, 1, IF Len(s) < CollectionsCut THEN Len(s) ELSE CollectionsCut)

\* str(e)[:80]
Slice80(s) == SubSeq(s, 1, IF Len(s) < ErrorCut THEN Len(s) ELSE ErrorCut)

\* the response built by lines 29-55; url is whether DATABASE_URL is set.
\* Nothing in the outer try raises outside the inner try, so the outer
\* except branch (line 52) is never taken.
test_database_response(url) ==
    IF db = "unset"
    THEN [op |-> "test_database", status |-> 200,
          backend |-> "Running",
          database |-> [text |-> "Available but not initialized"],
          database_url |-> "None", database_name |-> "None",
          connection_status |-> "Not Connected",
          collections |-> <<>>]
    ELSE IF db = "up"
    THEN [op |-> "test_database", status |-> 200,
          backend |-> "Running",
          database |-> [text |-> "Connected & Working"],
          database_url |-> IF url THEN "Set" ELSE "Not Set",
          database_name |-> "appdb",
          connection_status |-> "Connected",
          collections |-> Slice10(list_collection_names)]
    ELSE [op |-> "test_database", status |-> 200,
          backend |-> "Running",
          database |-> [text |-> "Connected but Error: ",
                        error |-> Slice80(ErrorText)],
          database_url |-> IF url THEN "Set" ELSE "Not Set",
          database_name |-> "appdb",
          connection_status |-> "Connected",
          collections |-> <<>>]

test_database ==
    /\ \E url \in BOOLEAN : resp' = test_database_response(url)
    /\ UNCHANGED <<db, store, nextId, pc, req, createdT, createdP>>

\* ---------------------------------------------------------------- tournaments
\* the collection create_tournament writes to
TournamentCollectionWrong == "prediction"
TournamentCollection == "tournament"

\* POST /api/tournaments
create_tournament(t) ==
    /\ IF ~ValidTournament(t)
       THEN /\ resp' = Unprocessable("create_tournament", t)
            /\ UNCHANGED <<store, nextId, createdT>>
       ELSE IF db # "up"
       THEN /\ resp' = HTTPException("create_tournament", 500, StoreError, t)
            /\ UNCHANGED <<store, nextId, createdT>>
       ELSE /\ Room
            /\ store' = create_document(TournamentCollection, t)
            /\ nextId' = nextId + 1
            /\ resp' = [op |-> "create_tournament", status |-> 200,
                        request |-> t, id |-> StrOid(OidOf(nextId))]
            /\ createdT' = createdT \cup {[id |-> StrOid(OidOf(nextId)), p |-> t]}
    /\ UNCHANGED <<db, pc, req, createdP>>

\* filter_q = {"status": status} if status else {}
TournamentFilter(status) ==
    IF Truthy(status) THEN [status |-> status.s] ELSE <<>>

\* the constructor arguments of TournamentOut evaluate without raising and
\* pass its validation (title and asset are text)
TournamentOutOk(d) ==
    /\ "title" \in DOMAIN d /\ "asset" \in DOMAIN d
    /\ FloatOk(Get(d, "entry_fee", Num(0)))
    /\ FloatOk(Get(d, "prize_pool", Num(0)))

TournamentOutSwapped(d) ==
    [id |-> StrOid(d._id),
     title |-> d.title,
     asset |-> d.asset,
     start_time |-> IF TruthyTime(Get(d, "start_time", None))
                    THEN IsoFormat(d.start_time) ELSE "",
     end_time |-> IF TruthyTime(Get(d, "end_time", None))
                  THEN IsoFormat(d.end_time) ELSE "",
     entry_fee |-> Float(Get(d, "prize_pool", Num(0))),
     prize_pool |-> Float(Get(d, "entry_fee", Num(0))),
     status |-> Get(d, "status", "upcoming")]

TournamentOut(d) ==
    [id |-> StrOid(d._id),
     title |-> d.title,
     asset |-> d.asset,
     start_time |-> IF TruthyTime(Get(d, "start_time", None))
                    THEN IsoFormat(d.start_time) ELSE "",
     end_time |-> IF TruthyTime(Get(d, "end_time", None))
                  THEN IsoFormat(d.end_time) ELSE "",
     entry_fee |-> Float(Get(d, "entry_fee", Num(0))),
     prize_pool |-> Float(Get(d, "prize_pool", Num(0))),
     status |-> Get(d, "status", "upcoming")]

StatusParams == {None, Str("active"), Str("")}

\* GET /api/tournaments?status=
list_tournaments(status) ==
    /\ IF db # "up"
       THEN resp' = HTTPException("list_tournaments", 500, StoreError, status)
       ELSE LET docs == get_documents("tournament", TournamentFilter(status))
            IN  IF \E i \in 1..Len(docs) : ~TournamentOutOk(docs[i])
                THEN resp' = HTTPException("list_tournaments", 500,
                                           "float() argument must be a number",
                                           status)
                ELSE resp' = [op |-> "list_tournaments", status |-> 200,
                              request |-> status,
                              body |-> [i \in 1..Len(docs) |-> TournamentOut(docs[i])]]
    /\ UNCHANGED <<db, store, nextId, pc, req, createdT, createdP>>

\* ---------------------------------------------------------------- predictions
\* try: oid = ObjectId(p.tournament_id)  except Exception: raise 400
ParseFailedNever(oid) == FALSE
ParseFailed(oid) == oid = InvalidId

\* t = db["tournament"].find_one({"_id": oid});  "if not t"
FoundAlways(oid) == TRUE
Found(oid) == Len(Find(store.tournament, [_id |-> oid])) > 0

\* str(e) of what db["tournament"].find_one raises: db is None, or the
\* store is unreachable
LookupError ==
    IF db = "unset" THEN "'NoneType' object is not subscriptable"
                    ELSE "connection refused"

\* except HTTPException: raise  (ahead of the generic except Exception)
Wrapped500(e) == [e EXCEPT !.status = 500]
Reraise(e) == e

\* POST /api/predictions, up to and including the existence lookup
\* (workers run the same code: a request goes to the lowest idle one)
create_prediction_lookup(w, p) ==
    /\ pc[w] = "idle"
    /\ \A v \in Workers : v < w => pc[v] # "idle"
    /\ IF ~ValidPrediction(p)
       THEN /\ resp' = Unprocessable("create_prediction", p)
            /\ UNCHANGED <<pc, req>>
       ELSE LET oid == ObjectId(p.tournament_id)
            IN  IF ParseFailed(oid)
                THEN /\ resp' = Reraise(HTTPException("create_prediction", 400,
                                            "Invalid tournament id", p))
                     /\ UNCHANGED <<pc, req>>
                ELSE IF db # "up"
                THEN /\ resp' = HTTPException("create_prediction", 500,
                                              LookupError, p)
                     /\ UNCHANGED <<pc, req>>
                ELSE IF ~Found(oid)
                THEN /\ resp' = Reraise(HTTPException("create_prediction", 404,
                                            "Tournament not found", p))
                     /\ UNCHANGED <<pc, req>>
                ELSE /\ pc' = [pc EXCEPT ![w] = "insert"]
                     /\ req' = [req EXCEPT ![w] = [p |-> p, oid |-> oid]]
                     /\ UNCHANGED resp
    /\ UNCHANGED <<db, store, nextId, createdT, createdP>>

\* POST /api/predictions, from create_document("prediction", p) on
create_prediction_insert(w) ==
    /\ pc[w] = "insert"
    /\ IF db # "up"
       THEN /\ resp' = HTTPException("create_prediction", 500, StoreError,
                                     req[w].p)
            /\ UNCHANGED <<store, nextId, createdP>>
       ELSE /\ Room
            /\ store' = create_document("prediction", req[w].p)
            /\ nextId' = nextId + 1
            /\ resp' = [op |-> "create_prediction", status |-> 200,
                        request |-> req[w].p, id |-> StrOid(OidOf(nextId))]
            /\ createdP' = createdP \cup
                  {[id |-> StrOid(OidOf(nextId)), p |-> req[w].p,
                    oid |-> req[w].oid]}
    /\ pc' = [pc EXCEPT ![w] = "idle"]
    /\ req' = [req EXCEPT ![w] = None]
    /\ UNCHANGED <<db, createdT>>

\* q = {"tournament_id": tournament_id} if tournament_id else {}
PredictionFilterNone(tournament_id) == <<>>
PredictionFilter(tournament_id) ==
    IF Truthy(tournament_id) THEN [tournament_id |-> tournament_id.s] ELSE <<>>

PredictionOutOk(d) == FloatOk(Get(d, "amount", Num(0)))

PredictionOut(d) ==
    [id |-> StrOid(d._id),
     tournament_id |-> Get(d, "tournament_id", None),
     user |-> Get(d, "user", None),
     direction |-> Get(d, "direction", None),
     amount |-> Float(Get(d, "amount", Num(0))),
     created_at |-> IF TruthyTime(Get(d, "created_at", None))
                    THEN Str(IsoFormat(d.created_at)) ELSE None]

TidParams == {None, Str(<<>>)} \cup {Str(s) : s \in TidInputs}

\* GET /api/predictions?tournament_id=
list_predictions(tournament_id) ==
    /\ IF db # "up"
       THEN resp' = HTTPException("list_predictions", 500, StoreError,
                                  tournament_id)
       ELSE LET docs == get_documents("prediction",
                                      PredictionFilter(tournament_id))
            IN  IF \E i \in 1..Len(docs) : ~PredictionOutOk(docs[i])
                THEN resp' = HTTPException("list_predictions", 500,
                                           "float() argument must be a number",
                                           tournament_id)
                ELSE resp' = [op |-> "list_predictions", status |-> 200,
                              request |-> tournament_id,
                              body |-> [i \in 1..Len(docs) |-> PredictionOut(docs[i])]]
    /\ UNCHANGED <<db, store, nextId, pc, req, createdT, createdP>>

\* ---------------------------------------------------------------- specification
Next ==
    \/ read_root
    \/ test_database
    \/ \E t \in TournamentPayloads : create_tournament(t)
    \/ \E s \in StatusParams : list_tournaments(s)
    \/ \E w \in Workers, p \in PredictionPayloads : create_prediction_lookup(w, p)
    \/ \E w \in Workers : create_prediction_insert(w)
    \/ \E tid \in TidParams : list_predictions(tid)
    \/ StoreFails
    \/ StoreRecovers

Spec == Init /\ [][Next]_vars

\* ---------------------------------------------------------------- claims
Ids(docs) == {docs[i]._id : i \in 1..Len(docs)}
Entries(r) == {r.body[i] : i \in 1..Len(r.body)}
IsPrefix(a, b) == Len(a) <= Len(b) /\ SubSeq(b, 1, Len(a)) = a

\* C1: in every reachable state, under any interleaving of the handlers,
\* every persisted prediction has a tournament_id that the identifier parser
\* accepts and that identifies a stored tournament, and the identifier its
\* existence lookup found is the one its tournament_id parses to.
C1_ReferentialIntegrity ==
    /\ \A i \in 1..Len(store.prediction) :
          LET oid == ObjectId(store.prediction[i].tournament_id)
          IN  oid # InvalidId /\ oid \in Ids(store.tournament)
    /\ \A c \in createdP :
          /\ c.oid = ObjectId(c.p.tournament_id)
          /\ c.oid \in Ids(store.tournament)
          /\ \E i \in 1..Len(store.prediction) :
                StrOid(store.prediction[i]._id) = c.id

\* a prediction is persisted while another create_prediction is between its
\* lookup and its insert
C1_Witness ==
    /\ Len(store.prediction) >= 1
    /\ \E w \in Workers : pc[w] = "insert"

\* the valid Prediction payloads whose tournament_id parses
WellFormedPayloads ==
    {p \in PredictionPayloads :
        ValidPrediction(p) /\ ObjectId(p.tournament_id) # InvalidId}

\* C2: a create_prediction step whose payload is a valid Prediction, whose
\* tournament_id parses, and which finds no tournament with that identifier
\* in the reachable store answers 404 "Tournament not found" (not 500), and
\* inserts nothing.
C2_NotFound ==
    [][db = "up" =>
         \A p \in WellFormedPayloads :
            ObjectId(p.tournament_id) \notin Ids(store.tournament) =>
               \A w \in Workers :
                  create_prediction_lookup(w, p)
                  => ( /\ resp'.op = "create_prediction"
                       /\ resp'.status = 404
                       /\ resp'.detail = "Tournament not found"
                       /\ resp'.request = p
                       /\ store' = store
                       /\ pc' = pc )]_vars

\* a 404 was answered while the store holds other tournaments
C2_Witness ==
    /\ resp.op = "create_prediction"
    /\ resp.status = 404
    /\ ObjectId(resp.request.tournament_id) # InvalidId
    /\ Len(store.tournament) >= 1

\* C3 as stated: whenever the tournament_id does not parse, the response is
\* 400 "Invalid tournament id", whatever the other payload fields are.
C3_Original ==
    ( /\ resp.op = "create_prediction"
      /\ ObjectId(resp.request.tournament_id) = InvalidId )
    => (resp.status = 400 /\ resp.detail = "Invalid tournament id")

\* C3 amended: when the payload is a valid Prediction and its tournament_id
\* does not parse, the response is 400 "Invalid tournament id" in every state
\* of the store; when the payload is not valid the response is the 422 of
\* request validation.
C3_InvalidId ==
    ( /\ resp.op = "create_prediction"
      /\ ObjectId(resp.request.tournament_id) = InvalidId )
    => IF ValidPrediction(resp.request)
       THEN resp.status = 400 /\ resp.detail = "Invalid tournament id"
       ELSE resp.status = 422

\* 400 answered with the store handle unset
C3_Witness ==
    /\ resp.op = "create_prediction"
    /\ resp.status = 400
    /\ db # "up"

\* C4: a list_predictions response filtered by tournament_id holds every
\* prediction whose create_prediction succeeded, before it, with that
\* tournament_id, and only entries with that tournament_id.
C4_CreateThenList ==
    ( /\ resp.op = "list_predictions"
      /\ resp.status = 200
      /\ Truthy(resp.request) )
    => /\ \A c \in createdP :
            c.p.tournament_id = resp.request.s
            => \E e \in Entries(resp) : e.id = c.id
       /\ \A e \in Entries(resp) : e.tournament_id = resp.request.s

\* a filtered list that returned a prediction created through the API
C4_Witness ==
    /\ resp.op = "list_predictions"
    /\ resp.status = 200
    /\ Truthy(resp.request)
    /\ \E c \in createdP : \E e \in Entries(resp) : e.id = c.id

\* the stored tournaments whose stored status equals s
WithStatus(s) ==
    SelectSeq(store.tournament,
              LAMBDA d : "status" \in DOMAIN d /\ d.status = s)

\* C5: list_tournaments with status=S returns exactly the tournaments whose
\* stored status equals S, for every text S; with no status it returns every
\* stored tournament.
C5_Original ==
    (resp.op = "list_tournaments" /\ resp.status = 200)
    => LET want == IF resp.request = None THEN store.tournament
                   ELSE WithStatus(resp.request.s)
       IN  [i \in 1..Len(resp.body) |-> resp.body[i].id]
             = [i \in 1..Len(want) |-> StrOid(want[i]._id)]

\* C6: an unfiltered list_tournaments response holds, for every tournament
\* created through the API before it, an entry with the id returned whose
\* fields are the payload's, status "upcoming" when the payload had none.
C6_RoundTrip ==
    ( /\ resp.op = "list_tournaments"
      /\ resp.status = 200
      /\ resp.request = None )
    => \A c \in createdT :
          \E e \in Entries(resp) :
             /\ e.id = c.id
             /\ e.title = c.p.title
             /\ e.asset = c.p.asset
             /\ e.start_time = IsoFormat(c.p.start_time)
             /\ e.end_time = IsoFormat(c.p.end_time)
             /\ e.entry_fee = c.p.entry_fee.n
             /\ e.prize_pool = c.p.prize_pool.n
             /\ e.status = (IF "status" \in DOMAIN c.p THEN c.p.status
                                                      ELSE "upcoming")

\* an unfiltered list holding a tournament created without status
C6_Witness ==
    /\ resp.op = "list_tournaments"
    /\ resp.status = 200
    /\ resp.request = None
    /\ \E c \in createdT : "status" \notin DOMAIN c.p
    /\ Len(resp.body) >= 2

\* the number list_tournaments is to report for a stored fee
Reported(d, f) ==
    IF f \in DOMAIN d /\ d[f].t = "num" THEN d[f].n ELSE 0

\* C7: with the store reachable, list_tournaments succeeds whatever the
\* stored documents are, and reports entry_fee and prize_pool as numbers,
\* 0.0 for a stored value that is absent or null.
C7_Original ==
    [][\A s \in StatusParams :
          (db = "up" /\ list_tournaments(s))
          => LET docs == get_documents("tournament", TournamentFilter(s))
             IN  /\ resp'.status = 200
                 /\ Len(resp'.body) = Len(docs)
                 /\ \A i \in 1..Len(docs) :
                       /\ resp'.body[i].entry_fee = Reported(docs[i], "entry_fee")
                       /\ resp'.body[i].prize_pool = Reported(docs[i], "prize_pool")]_vars

\* C8: every step keeps each collection's documents as a prefix; a step
\* changes the store only by a successful create, which appends exactly one
\* document, carrying the returned id, to its own collection and leaves the
\* other collection alone; every other response leaves both alone.
C8_AppendOnly ==
    [][ /\ \/ store' = store
           \/ /\ IsPrefix(store.tournament, store'.tournament)
              /\ IsPrefix(store.prediction, store'.prediction)
              /\ resp'.status = 200
              /\ resp'.op \in {"create_tournament", "create_prediction"}
              /\ LET own == IF resp'.op = "create_tournament"
                            THEN "tournament" ELSE "prediction"
                     other == IF resp'.op = "create_tournament"
                              THEN "prediction" ELSE "tournament"
                 IN  /\ Len(store'[own]) = Len(store[own]) + 1
                     /\ StrOid(store'[own][Len(store'[own])]._id) = resp'.id
                     /\ store'[other] = store[other]
        /\ (resp'.status = 200 /\ resp'.op = "create_tournament") =>
              \A t \in TournamentPayloads :
                 create_tournament(t)
                 => Len(store'.tournament) = Len(store.tournament) + 1
        /\ (resp'.status = 200 /\ resp'.op = "create_prediction") =>
              \A w \in Workers :
                 create_prediction_insert(w)
                 => Len(store'.prediction) = Len(store.prediction) + 1
      ]_vars

\* both collections hold documents and the last request was refused
C8_Witness ==
    /\ Len(store.tournament) >= 1
    /\ Len(store.prediction) >= 1
    /\ resp.op = "create_prediction"
    /\ resp.status \in {400, 404}

\* C9: test_database always answers (status 200); a failure is text in the
\* database field; collections holds at most 10 names, the first 10 the
\* store reports.
C9_Diagnostics ==
    resp.op = "test_database"
    => /\ resp.status = 200
       /\ Len(resp.collections) <= 10
       /\ IsPrefix(resp.collections, list_collection_names)
       /\ resp.database.text \in {"Available but not initialized",
                                  "Connected & Working",
                                  "Connected but Error: "}
       /\ resp.database.text = "Connected & Working"
             => Len(resp.collections) =
                   (IF Len(list_collection_names) < 10
                    THEN Len(list_collection_names) ELSE 10)
       /\ resp.database.text = "Connected but Error: "
             => Len(resp.database.error) <= 80 /\ resp.collections = <<>>

\* the store reports more than 10 names and 10 were returned
C9_Witness ==
    /\ resp.op = "test_database"
    /\ Len(list_collection_names) > 10
    /\ Len(resp.collections) = 10

\* C10: a list_predictions response filtered by the canonical id text of a
\* tournament holds every prediction created against that tournament, and
\* every stored tournament_id is the canonical text of what it parses to.
C10_Original ==
    /\ \A i \in 1..Len(store.prediction) :
          LET tid == store.prediction[i].tournament_id
          IN  ObjectId(tid) # InvalidId => tid = StrOid(ObjectId(tid))
    /\ ( /\ resp.op = "list_predictions"
         /\ resp.status = 200
         /\ Truthy(resp.request) )
       => \A c \in createdP :
             StrOid(c.oid) = resp.request.s
             => \E e \in Entries(resp) : e.id = c.id

====
